---------------------------- MODULE Spec2Model ----------------------------
(***************************************************************************)
(* A model of jigsaw-generate.py: the entry formatter (make_entry,         *)
(* make_entry_util, img2tex, cardnum), the table formatter (make_table),   *)
(* the piece assignment of make_triangles and make_squares, and the part   *)
(* of generate_jigsaw that seeds the generator, prepares the pair lists,   *)
(* resets exists_hidden and writes the legend slots.                       *)
(*                                                                         *)
(* A Python string is a sequence of tokens: the characters of a text of    *)
(* the data file are one token each, a literal of the program is a single  *)
(* token, and string formatting is concatenation (\o).                     *)
(***************************************************************************)
EXTENDS Integers, Sequences, FiniteSets, TLC

VARIABLES
    pc,               \* where the process is
    exists_hidden,    \* the module-level flag (line 49)
    hidden_at_entry,  \* exists_hidden as the latest run found it
    made,             \* the functions the run has completed
    err,              \* the exception or exit that ended the run, "" if none
    rng,              \* the random generator: its seed and the draws made
    layout,           \* the layout file of the run
    data,             \* the puzzle file of the run
    pairs,            \* generate_jigsaw's pairs, edges, cards, flippedpairs
    edges,
    cards,
    flippedpairs,
    dsubs,            \* the substitution maps, slot -> string
    dsubsmd,
    trianglesolcard,  \* make_triangles' lists
    trianglepuzcard,
    triangleorder,
    trianglerot,      \* the rot drawn for each solution card
    squaresolcard,    \* make_squares' lists
    squarepuzcard,
    squareorder,
    squarerot,
    ecall,            \* the latest make_entry call: its arguments and result
    acall,            \* the latest number-angle computation
    tape,             \* the random streams: seed -> the draws known of it
    history,          \* the ranges of the draws made since the seeding
    prev              \* the run before this one, as it ended

runvars == <<hidden_at_entry, made, err, rng, layout, data, pairs, edges, cards, flippedpairs, dsubs, dsubsmd>>

trivars == <<trianglesolcard, trianglepuzcard, triangleorder, trianglerot>>

sqvars == <<squaresolcard, squarepuzcard, squareorder, squarerot>>

seedvars == <<tape, history, prev>>

vars == <<pc, exists_hidden, runvars, trivars, sqvars, ecall, acall, seedvars>>

---------------------------------------------------------------------------
(* Bounds of the model *)

\* size offsets of a record entry range over -MaxDelta..MaxDelta
MaxDelta == 10

\* a layout has at most MaxCards solution cards, triangles and squares
MaxCards == 2

\* orientations range over the multiples of 30 from -30*MaxTurn to 30*MaxTurn,
\* shifted by at most MaxOffset
MaxTurn == 12

MaxOffset == 2

---------------------------------------------------------------------------
(* Global definitions, lines 34-49 *)

sizes == <<"\\tiny", "\\scriptsize", "\\footnotesize", "\\small", "\\normalsize", "\\large", "\\Large", "\\LARGE", "\\huge", "\\Huge">>

normalsize == 4

\* the least element of a set of positions, 0 for the empty set
Min0(S) == IF S = {} THEN 0 ELSE CHOOSE x \in S : \A y \in S : x <= y

---------------------------------------------------------------------------
(* Content entries of the data file.  A plain string has isdict = FALSE;   *)
(* a dictionary may or may not hold the keys text, size and hidden.        *)
(* sizeok says whether int(entry['size']) succeeds.                        *)

Plain(t) == [isdict |-> FALSE, hastext |-> FALSE, text |-> t, hassize |-> FALSE, sizeok |-> FALSE, size |-> 0, hashidden |-> FALSE, hidden |-> FALSE]

Rich(t, h) == [isdict |-> TRUE, hastext |-> TRUE, text |-> t, hassize |-> FALSE, sizeok |-> FALSE, size |-> 0, hashidden |-> TRUE, hidden |-> h]

---------------------------------------------------------------------------
(* img2tex, lines 165-180.  img_re is ![caption](img), the caption without *)
(* a ], the img without a ).                                               *)

\* the first position >= k of character c in s, or 0
FindFrom(s, c, k) == Min0({i \in k..Len(s) : s[i] = c})

\* the ) that ends a match whose caption ends at the ] at close, or 0
ImgEndFrom(s, close) == IF close # 0 /\ close + 1 <= Len(s) /\ s[close + 1] = "(" THEN FindFrom(s, ")", close + 2) ELSE 0

\* the ) that ends the match of img_re starting at position i, or 0
ImgEnd(s, i) == IF i + 1 <= Len(s) /\ s[i] = "!" /\ s[i + 1] = "[" THEN ImgEndFrom(s, FindFrom(s, "]", i + 2)) ELSE 0

\* img_re.search: the start of the leftmost match, or 0
ImgSearch(s) == Min0({i \in 1..Len(s) : ImgEnd(s, i) # 0})

\* lines 172-176: the replacement of a match
ImgRepl(caption, img) ==
    IF caption # <<>>
    THEN <<"\\imagecap{">> \o img \o <<"}{">> \o caption \o <<"}">>
    ELSE <<"\\image{">> \o img \o <<"}">>

\* img_re.sub(..., count=1) on the match from i to end, its ] at close
ImgSubAt(s, i, close, end) == SubSeq(s, 1, i - 1) \o ImgRepl(SubSeq(s, i + 2, close - 1), SubSeq(s, close + 2, end - 1)) \o SubSeq(s, end + 1, Len(s))

ImgSub(s, i) == ImgSubAt(s, i, FindFrom(s, "]", i + 2), ImgEnd(s, i))

\* the while loop of lines 170-178, images being the match at i
RECURSIVE img2texFrom(_, _)
img2texFrom(text, i) == IF i = 0 THEN text ELSE img2texFrom(ImgSub(text, i), ImgSearch(ImgSub(text, i)))

img2tex(text) == img2texFrom(text, ImgSearch(text))

---------------------------------------------------------------------------
(* make_entry_util, lines 143-163 *)

make_entry_util(text, size, mark_hidden, style) ==
    IF mark_hidden
    THEN CASE style = "table" -> <<"(*) ">> \o img2tex(text)
           [] style = "tikz" -> <<"{hidden}{", size, " ">> \o img2tex(text) \o <<"}">>
           [] style = "md" -> <<" (*) ">> \o text \o <<" ">>
           [] OTHER -> <<"None">>
    ELSE CASE style = "table" -> img2tex(text)
           [] style = "tikz" -> <<"{regular}{", size, " ">> \o img2tex(text) \o <<"}">>
           [] style = "md" -> <<" ">> \o (IF text # <<>> THEN text ELSE <<"(BLANK)">>) \o <<" ">>
           [] OTHER -> <<"None">>

---------------------------------------------------------------------------
(* make_entry, lines 76-141.  A call ends at one of the statements of      *)
(* lines 107, 129, 131, 133, 136 (sys.exit), 138 and 141; the result is    *)
(* a record: out, the string returned; sets, whether the call assigned     *)
(* exists_hidden = True; diag, the diagnostic printed; exit, whether the   *)
(* call ended in sys.exit.                                                 *)

\* a size index clamped one below the last index of sizes
EntrySizeBelowTop(entry, defaultsize) ==
    IF entry.hassize
    THEN IF entry.sizeok
         THEN IF defaultsize + entry.size < 0 THEN 0
              ELSE IF defaultsize + entry.size >= Len(sizes) THEN Len(sizes) - 2
              ELSE defaultsize + entry.size
         ELSE defaultsize
    ELSE defaultsize

\* lines 109-123: the size index of a dictionary entry
EntrySize(entry, defaultsize) ==
    IF entry.hassize
    THEN IF entry.sizeok
         THEN IF defaultsize + entry.size < 0 THEN 0
              ELSE IF defaultsize + entry.size >= Len(sizes) THEN Len(sizes) - 1
              ELSE defaultsize + entry.size
         ELSE defaultsize
    ELSE defaultsize

\* the diagnostic of lines 103 and 117
EntryDiag(entry) ==
    IF entry.isdict /\ ~entry.hastext THEN "notext"
    ELSE IF entry.isdict /\ entry.hassize /\ ~entry.sizeok THEN "badsize"
    ELSE "none"

\* the line of the statement that ends the call
ReturnLine(entry, hide) ==
    IF entry.isdict
    THEN IF ~entry.hastext THEN 107
         ELSE IF entry.hashidden /\ entry.hidden
              THEN CASE hide = "hide" -> 129
                     [] hide = "mark" -> 131
                     [] hide = "ignore" -> 133
                     [] OTHER -> 136
              ELSE 138
    ELSE 141

\* an assignment of exists_hidden made in the branch of line 131 only
SetsHiddenWhenMarked(line) == line = 131

\* lines 125-127: the calls that assign exists_hidden = True
SetsHidden(line) == line \in {129, 131, 133, 136}

\* a call that passes the text of the entry on in hide mode as well
ReturnTextKept(line, entry) == IF line \in {107, 136} THEN <<>> ELSE entry.text

\* the text, the size keyword and the mark passed to make_entry_util
ReturnText(line, entry) == IF line \in {107, 129, 136} THEN <<>> ELSE entry.text

ReturnSize(line, entry, defaultsize) ==
    CASE line \in {107, 129, 136} -> ""
      [] line = 141 -> sizes[defaultsize + 1]
      [] OTHER -> sizes[EntrySize(entry, defaultsize) + 1]

ReturnMark(line) == line = 131

EntryReturn(line, entry, defaultsize, style) ==
    [out |-> IF line = 136 THEN <<>> ELSE make_entry_util(ReturnText(line, entry), ReturnSize(line, entry, defaultsize), ReturnMark(line), style),
     sets |-> SetsHidden(line),
     diag |-> EntryDiag(entry),
     exit |-> line = 136]

make_entry(entry, defaultsize, hide, style) == EntryReturn(ReturnLine(entry, hide), entry, defaultsize, style)

\* the string a call returns
EntryOut(entry, defaultsize, hide, style) == make_entry(entry, defaultsize, hide, style).out

---------------------------------------------------------------------------
(* cardnum, lines 182-187 *)

cardnum(n) == IF n \in {6, 9} THEN <<"\\underline{", ToString(n), "}">> ELSE <<ToString(n)>>

---------------------------------------------------------------------------
(* Python's lists, dicts and random module as the program uses them *)

\* seq[k] for a Python index k: defined for -len <= k < len, negative
\* indices counting from the end
PyInRange(seq, k) == -Len(seq) <= k /\ k < Len(seq)

PyIndex(seq, k) == seq[(k % Len(seq)) + 1]

\* d[k] = v on a dict d
Put(d, k, v) == [x \in DOMAIN d \cup {k} |-> IF x = k THEN v ELSE d[x]]

\* d[k] += v
Append2(d, k, v) == [d EXCEPT ![k] = @ \o v]

Swap(x, a, b) == [x EXCEPT ![a] = x[b], ![b] = x[a]]

\* The draws of random.shuffle on a list of n items: for i = n-1 down to 1,
\* one j in 0..i.  js[i] is the draw made for i.
ShuffleDraws(n) == {js \in [1..(n - 1) -> 0..(n - 1)] : \A i \in 1..(n - 1) : js[i] <= i}

\* random.shuffle(x) with the draws js: x[i], x[j] = x[j], x[i] from i down
RECURSIVE ShuffleFrom(_, _, _)
ShuffleFrom(x, i, js) == IF i < 1 THEN x ELSE ShuffleFrom(Swap(x, i + 1, js[i] + 1), i - 1, js)

Shuffle(x, js) == ShuffleFrom(x, Len(x) - 1, js)

\* list(range(n))
Range(n) == [i \in 1..n |-> i - 1]

\* '{%s}' % s
Brace(s) == <<"{">> \o s \o <<"}">>

---------------------------------------------------------------------------
(* make_table, lines 189-215.  The result is a record of the two maps and  *)
(* of whether some call of make_entry assigned exists_hidden.              *)

TableRow(e) == <<"\\strut ">> \o EntryOut(e, normalsize, "mark", "table") \o <<"\\\\ \\hline", "\n">>

MdRow(e) == <<"|">> \o EntryOut(e, 0, "mark", "md") \o <<"|", "\n">>

PairRow(p) == EntryOut(p[1], normalsize, "mark", "table") \o <<"&">> \o EntryOut(p[2], normalsize, "mark", "table") \o <<"\\\\ \\hline", "\n">>

PairMdRow(p) == <<"|">> \o EntryOut(p[1], 0, "mark", "md") \o <<"|">> \o EntryOut(p[2], 0, "mark", "md") \o <<"|", "\n">>

\* the strings of a list from the k-th on, one after the other
RECURSIVE Concat(_, _)
Concat(strs, k) == IF k > Len(strs) THEN <<>> ELSE strs[k] \o Concat(strs, k + 1)

\* "for x in items: block += row of x"
PairRows(ps) == Concat([n \in 1..Len(ps) |-> PairRow(ps[n])], 1)

PairMdRows(ps) == Concat([n \in 1..Len(ps) |-> PairMdRow(ps[n])], 1)

TableRows(items) == Concat([n \in 1..Len(items) |-> TableRow(items[n])], 1)

MdRows(items) == Concat([n \in 1..Len(items) |-> MdRow(items[n])], 1)

\* some formatted entry is a dictionary with a text and a true hidden
IsHidden(e) == e.isdict /\ e.hastext /\ e.hashidden /\ e.hidden

\* the entries make_table formats
TableEntries(ps, es, cs) == {ps[k][1] : k \in 1..Len(ps)} \cup {ps[k][2] : k \in 1..Len(ps)} \cup {es[k] : k \in 1..Len(es)} \cup {cs[k] : k \in 1..Len(cs)}

TableSets(ps, es, cs) == \E e \in TableEntries(ps, es, cs) : make_entry(e, normalsize, "mark", "table").sets

make_table(ps, es, cs, ds, dsmd) ==
    [dsubs |-> Put(Put(Put(ds, <<"tablepairs", 0>>, PairRows(ps)),
                       <<"tableedges", 0>>, TableRows(es)),
                   <<"tablecards", 0>>, TableRows(cs)),
     dsubsmd |-> Put(Put(Put(dsmd, <<"pairs", 0>>, PairMdRows(ps)),
                         <<"edges", 0>>, MdRows(es)),
                     <<"cards", 0>>, MdRows(cs)),
     sets |-> TableSets(ps, es, cs)]

---------------------------------------------------------------------------
(* Resolving the edge references of the solution cards, lines 234-249 and  *)
(* 337-352.  A reference is [kind, num]: entry[0] and int(entry[1:]).      *)

Ref(kind, num) == [kind |-> kind, num |-> num]

NoEntry == Plain(<<>>)

\* One reference: the entry appended to newcard, or the exception raised.
\* Any other kind letter reaches the call of printf, a name the module
\* never defines: NameError.
ResolveRef(entry, ps, es) ==
    LET entrynum == entry.num - 1
    IN  CASE entry.kind = "Q" -> IF PyInRange(ps, entrynum) THEN [err |-> "", entry |-> PyIndex(ps, entrynum)[1]] ELSE [err |-> "IndexError", entry |-> NoEntry]
          [] entry.kind = "A" -> IF PyInRange(ps, entrynum) THEN [err |-> "", entry |-> PyIndex(ps, entrynum)[2]] ELSE [err |-> "IndexError", entry |-> NoEntry]
          [] entry.kind = "E" -> IF PyInRange(es, entrynum) THEN [err |-> "", entry |-> PyIndex(es, entrynum)] ELSE [err |-> "IndexError", entry |-> NoEntry]
          [] OTHER -> [err |-> "NameError", entry |-> NoEntry]

\* the first exception raised while resolving a card, "" if none
FirstBad(card, ps, es) == Min0({k \in 1..Len(card) : ResolveRef(card[k], ps, es).err # ""})

ErrAt(card, k, ps, es) == IF k = 0 THEN "" ELSE ResolveRef(card[k], ps, es).err

CardErr(card, ps, es) == ErrAt(card, FirstBad(card, ps, es), ps, es)

FirstBadCard(cardlist, ps, es) == Min0({c \in 1..Len(cardlist) : CardErr(cardlist[c], ps, es) # ""})

ResolvedAt(cardlist, c, ps, es) ==
    IF c # 0
    THEN [err |-> CardErr(cardlist[c], ps, es), cards |-> <<>>]
    ELSE [err |-> "", cards |-> [n \in 1..Len(cardlist) |-> [k \in 1..Len(cardlist[n]) |-> ResolveRef(cardlist[n][k], ps, es).entry]]]

ResolveCards(cardlist, ps, es) == ResolvedAt(cardlist, FirstBadCard(cardlist, ps, es), ps, es)

---------------------------------------------------------------------------
(* The assignment loops, lines 264-291 and 367-399 *)

\* '[[]] * n'
EmptyCards(n) == [j \in 1..n |-> <<>>]

\* a normalisation without the final shift: (angle + 180) % 360
NormalizeUnshifted(angle) == (angle + 180) % 360

\* (angle + 180) % 360 - 180, lines 278 and 384
Normalize(angle) == ((angle + 180) % 360) - 180

\* lines 275-277 and 380-382
NumberAngle(numpuz, basesol, basepuz, step, rot) == numpuz + (basesol - basepuz) - step * rot

\* the position a solution card is put at, lines 265 and 368
PuzzlePosition(order, i) == order[i]

\* a triangle card turned the other way round: slot k takes solcard[(k + rot) % 3]
TriPuzCardForward(solcard, rot, j, puzorient) ==
    <<solcard[(rot % 3) + 1], solcard[((1 + rot) % 3) + 1], solcard[((2 + rot) % 3) + 1], cardnum(j + 1), PyIndex(puzorient, j)[2]>>

\* a triangle card labelled with its position counted from 0
TriPuzCardFromZero(solcard, rot, j, puzorient) ==
    <<solcard[((3 - rot) % 3) + 1], solcard[((4 - rot) % 3) + 1], solcard[((5 - rot) % 3) + 1], cardnum(j), PyIndex(puzorient, j)[2]>>

\* lines 267-270
TriPuzCard(solcard, rot, j, puzorient) ==
    <<solcard[((3 - rot) % 3) + 1], solcard[((4 - rot) % 3) + 1], solcard[((5 - rot) % 3) + 1], cardnum(j + 1), PyIndex(puzorient, j)[2]>>

\* a square card turned the other way round: slot k takes solcard[(k + rot) % 4]
SqPuzCardForward(solcard, rot, j, puzorient, num_triangle_cards) ==
    <<solcard[(rot % 4) + 1], solcard[((1 + rot) % 4) + 1], solcard[((2 + rot) % 4) + 1], solcard[((3 + rot) % 4) + 1], cardnum(j + num_triangle_cards + 1), PyIndex(puzorient, j)[2]>>

\* lines 370-375
SqPuzCard(solcard, rot, j, puzorient, num_triangle_cards) ==
    <<solcard[((4 - rot) % 4) + 1], solcard[((5 - rot) % 4) + 1], solcard[((6 - rot) % 4) + 1], solcard[((7 - rot) % 4) + 1], cardnum(j + num_triangle_cards + 1), PyIndex(puzorient, j)[2]>>

\* "%s %s" % (sizes[max(size-2, 0)], label)
NumberField(size, label) == <<sizes[(IF size - 2 > 0 THEN size - 2 ELSE 0) + 1], " ">> \o label

\* lines 280-291: the slot of a triangle card, its entries formatted with
\* the hide mode of the drawing; '{%s}' * n on the first n entries of a card
Entries(card, n, size, hide) == Concat([k \in 1..n |-> Brace(EntryOut(card[k], size, hide, "tikz"))], 1)

TriSlot(card, size, hide) == Entries(card, 3, size, hide) \o Brace(NumberField(size, card[4])) \o Brace(<<ToString(card[5])>>)

\* lines 386-399
SqSlot(card, size, hide) == Entries(card, 4, size, hide) \o Brace(NumberField(size, card[5])) \o Brace(<<ToString(card[6])>>)

\* some call of make_entry on the first n entries of a card assigns exists_hidden
CardSets(card, n, size) == \E k \in 1..n : make_entry(card[k], size, "mark", "tikz").sets

\* One iteration of the triangle loop, for solution card i (from 1) put at
\* puzzle position j (from 0) with rotation rot.  st holds the lists, the
\* map, the flag, the draws made and the exception raised.
TriStep(st, i, j, rot, lay) ==
    LET solcard == st.sol[i]
        puzorient == lay.trianglePuzzleOrientation
        solorient == lay.triangleSolutionOrientation
        drawn == [st EXCEPT !.draws = @ + 1, !.rot = Append(@, rot)]
    IN  IF ~PyInRange(puzorient, j)
        THEN [drawn EXCEPT !.err = "IndexError"]
        ELSE LET puzcard == TriPuzCard(solcard, rot, j, puzorient)
                 placed == [drawn EXCEPT !.puz[j + 1] = puzcard]
             IN  IF ~PyInRange(solorient, i - 1)
                 THEN [placed EXCEPT !.err = "IndexError"]
                 ELSE LET angle == NumberAngle(PyIndex(puzorient, j)[2], PyIndex(solorient, i - 1), PyIndex(puzorient, j)[1], 120, rot)
                          ext == solcard \o <<cardnum(j + 1), Normalize(angle)>>
                      IN  [placed EXCEPT !.sol[i] = ext,
                                         !.dsubs = Put(Put(@, <<"trisolcard", i>>, TriSlot(ext, lay.solutionTextSize, "mark")),
                                                       <<"tripuzcard", j + 1>>, TriSlot(puzcard, lay.puzzleTextSize, "hide")),
                                         !.hid = @ \/ CardSets(solcard, 3, lay.solutionTextSize)]

\* One iteration of the square loop
SqStep(st, i, j, rot, lay) ==
    LET solcard == st.sol[i]
        puzorient == lay.squarePuzzleOrientation
        solorient == lay.squareSolutionOrientation
        num_triangle_cards == Len(lay.triangleSolutionCards)
        drawn == [st EXCEPT !.draws = @ + 1, !.rot = Append(@, rot)]
    IN  IF ~PyInRange(puzorient, j)
        THEN [drawn EXCEPT !.err = "IndexError"]
        ELSE LET puzcard == SqPuzCard(solcard, rot, j, puzorient, num_triangle_cards)
                 placed == [drawn EXCEPT !.puz[j + 1] = puzcard]
             IN  IF ~PyInRange(solorient, i - 1)
                 THEN [placed EXCEPT !.err = "IndexError"]
                 ELSE LET angle == NumberAngle(PyIndex(puzorient, j)[2], PyIndex(solorient, i - 1), PyIndex(puzorient, j)[1], 90, rot)
                          ext == solcard \o <<cardnum(j + num_triangle_cards + 1), Normalize(angle)>>
                      IN  [placed EXCEPT !.sol[i] = ext,
                                         !.dsubs = Put(Put(@, <<"sqsolcard", i>>, SqSlot(ext, lay.solutionTextSize, "mark")),
                                                       <<"sqpuzcard", j + 1>>, SqSlot(puzcard, lay.puzzleTextSize, "hide")),
                                         !.hid = @ \/ CardSets(solcard, 4, lay.solutionTextSize)]

\* the loops from solution card i on, until the list ends or an exception
RECURSIVE TriLoop(_, _, _, _, _)
TriLoop(st, i, order, rots, lay) ==
    IF i > Len(st.sol) \/ st.err # ""
    THEN st
    ELSE TriLoop(TriStep(st, i, PuzzlePosition(order, i), rots[i], lay), i + 1, order, rots, lay)

RECURSIVE SqLoop(_, _, _, _, _)
SqLoop(st, i, order, rots, lay) ==
    IF i > Len(st.sol) \/ st.err # ""
    THEN st
    ELSE SqLoop(SqStep(st, i, PuzzlePosition(order, i), rots[i], lay), i + 1, order, rots, lay)

\* the Markdown row of a puzzle card, lines 301-306 and 407-411
\* the slice t[0:n] holds the entries there are, n at most
PuzMdRow(t, n) == <<"|">> \o Concat([k \in 1..(IF Len(t) < n THEN Len(t) ELSE n) |-> EntryOut(t[k], 0, "hide", "md") \o <<"|">>], 1)

Row3(t) == PuzMdRow(t, 3) \o <<"\n">>

Row3in4(t) == PuzMdRow(t, 3) \o <<" &nbsp; |", "\n">>

Row4(t) == PuzMdRow(t, 4) \o <<"\n">>

Rows3(puz) == Concat([n \in 1..Len(puz) |-> Row3(puz[n])], 1)

Rows3in4(puz) == Concat([n \in 1..Len(puz) |-> Row3in4(puz[n])], 1)

Rows4(puz) == Concat([n \in 1..Len(puz) |-> Row4(puz[n])], 1)

\* "if k not in dsubsmd: dsubsmd[k] = ''"
Default(d, k) == IF k \in DOMAIN d THEN d ELSE Put(d, k, <<>>)

---------------------------------------------------------------------------
(* make_triangles, lines 217-306, and make_squares, lines 317-411, with    *)
(* the draws js of the shuffle and rots of the rotations.  The result      *)
(* holds the lists, the maps, the flag, the number of draws made and the   *)
(* exception that ended the function, "" if it returned.                   *)

LoopStart(cardlist, ds, hid) == [sol |-> cardlist, puz |-> EmptyCards(Len(cardlist)), dsubs |-> ds, hid |-> hid, draws |-> 0, rot |-> <<>>, err |-> ""]

Failed(e, ds, dsmd, hid) == [err |-> e, sol |-> <<>>, puz |-> <<>>, order |-> <<>>, rot |-> <<>>, dsubs |-> ds, dsubsmd |-> dsmd, hid |-> hid, draws |-> 0]

\* an order list that names position 0 for every card
InitialOrderZeros(n) == [i \in 1..n |-> 0]

\* the initial order list, lines 257 and 360
InitialOrder(n) == Range(n)

\* what the function leaves when its loop ended in state st
Finished(st, order, dsmd) ==
    [err |-> st.err, sol |-> st.sol, puz |-> st.puz, order |-> order, rot |-> st.rot, dsubs |-> st.dsubs, hid |-> st.hid,
     draws |-> (IF Len(order) > 1 THEN Len(order) - 1 ELSE 0) + st.draws, dsubsmd |-> dsmd]

\* lines 296-306
TriMd(dsmd, puz) == Append2(Append2(Default(Default(dsmd, <<"puzcards3", 0>>), <<"puzcards4", 0>>), <<"puzcards3", 0>>, Rows3(puz)), <<"puzcards4", 0>>, Rows3in4(puz))

\* lines 404-411
SqMd(dsmd, puz) == Append2(Default(dsmd, <<"puzcards4", 0>>), <<"puzcards4", 0>>, Rows4(puz))

TriFinished(st, order, dsmd) == Finished(st, order, IF st.err # "" THEN dsmd ELSE TriMd(dsmd, st.puz))

SqFinished(st, order, dsmd) == Finished(st, order, IF st.err # "" THEN dsmd ELSE SqMd(dsmd, st.puz))

\* lines 257-291
TriAssign(lay, solcards, order, ds, dsmd, hid, rots) == TriFinished(TriLoop(LoopStart(solcards, ds, hid), 1, order, rots, lay), order, dsmd)

\* lines 360-399
SqAssign(lay, solcards, order, ds, dsmd, hid, rots) == SqFinished(SqLoop(LoopStart(solcards, ds, hid), 1, order, rots, lay), order, dsmd)

TriResolved(res, lay, ds, dsmd, hid, js, rots) ==
    IF res.err # ""
    THEN Failed(res.err, ds, dsmd, hid)
    ELSE TriAssign(lay, res.cards, Shuffle(InitialOrder(Len(lay.triangleSolutionCards)), js), ds, dsmd, hid, rots)

SqResolved(res, lay, ds, dsmd, hid, js, rots) ==
    IF res.err # ""
    THEN Failed(res.err, ds, dsmd, hid)
    ELSE SqAssign(lay, res.cards, Shuffle(InitialOrder(Len(lay.squareSolutionCards)), js), ds, dsmd, hid, rots)

make_triangles(lay, ps, es, ds, dsmd, hid, js, rots) == TriResolved(ResolveCards(lay.triangleSolutionCards, ps, es), lay, ds, dsmd, hid, js, rots)

\* line 330 reads layout['triangleSolutionCards'], present or not
make_squares(lay, ps, es, ds, dsmd, hid, js, rots) ==
    IF ~lay.hasTri
    THEN Failed("KeyError", ds, dsmd, hid)
    ELSE SqResolved(ResolveCards(lay.squareSolutionCards, ps, es), lay, ds, dsmd, hid, js, rots)

---------------------------------------------------------------------------
(* The puzzle files and layout files of the runs *)

Chars(a, n) == <<a, ToString(n)>>

ImageText == <<"!", "[", "c", "]", "(", "p", ")">>

\* a dictionary entry with a text and a size offset
Sized(t, s, h) == [Rich(t, h) EXCEPT !.hassize = TRUE, !.sizeok = TRUE, !.size = s]

\* a dictionary entry without the key text
NoText(h) == [Rich(<<>>, h) EXCEPT !.hastext = FALSE]

DataFile(title, ps, es, cs, shuffle, flip) ==
    [title |-> title, pairs |-> ps, edges |-> es, cards |-> cs, note |-> <<>>,
     shufflePairs |-> shuffle, shuffleEdges |-> shuffle, shuffleCards |-> shuffle, flip |-> flip]

\* nothing hidden on the pieces; one card has a true hidden and no text
PlainData ==
    DataFile(<<>>,
             << <<Plain(Chars("q", 1)), Plain(Chars("a", 1))>>, <<Plain(Chars("q", 2)), Plain(Chars("a", 2))>> >>,
             <<Plain(Chars("e", 1)), Plain(<<>>)>>,
             <<NoText(TRUE)>>, FALSE, FALSE)

\* a hidden question, flipped pairs
HiddenPairData ==
    DataFile(<<"t">>,
             << <<Sized(Chars("q", 1), 2, TRUE), Plain(Chars("a", 1))>>, <<Plain(Chars("q", 2)), Rich(Chars("a", 2), FALSE)>> >>,
             <<Plain(Chars("e", 1)), Plain(Chars("e", 2))>>,
             <<Rich(ImageText, TRUE)>>, FALSE, TRUE)

\* a hidden edge, shuffled lists
HiddenEdgeData ==
    DataFile(<<"t">>,
             << <<Plain(Chars("q", 1)), Plain(Chars("a", 1))>>, <<Plain(Chars("q", 2)), Plain(ImageText)>> >>,
             <<Rich(Chars("e", 1), TRUE), Plain(Chars("e", 2))>>,
             <<Plain(<<"c">>)>>, TRUE, FALSE)

DataFiles == {PlainData, HiddenPairData, HiddenEdgeData}

\* The kinds of layout file: "full" has every key and tables as long as
\* the card lists; "lean" has no table template, the keys of the shapes it
\* uses only, and longer tables; the others are "full" with one defect.
LayoutKinds == {"full", "lean", "badkind", "badref", "shortpuz", "shortsol"}

PairOf(k) == ((k - 1) % 2) + 1

TriRing(k, v) ==
    <<IF k = 1 /\ v = "badref" THEN Ref("Q", 3) ELSE Ref("Q", PairOf(k)),
      IF k = 1 /\ v = "badkind" THEN Ref("X", 1) ELSE Ref("A", PairOf(k + 1)),
      Ref("E", PairOf(k))>>

SqRing(k, v) ==
    <<IF k = 1 /\ v = "badref" THEN Ref("Q", 3) ELSE Ref("Q", PairOf(k)),
      IF k = 1 /\ v = "badkind" THEN Ref("X", 1) ELSE Ref("A", PairOf(k)),
      Ref("E", 1), Ref("E", 2)>>

TableLen(n, v, short) == IF v = short /\ n > 0 THEN n - 1 ELSE IF v = "lean" THEN n + 1 ELSE n

LayoutFile(T, S, v) ==
    [hasTri |-> v # "lean" \/ T > 0,
     hasSq |-> v # "lean" \/ S > 0,
     table |-> v # "lean",
     puzzleTextSize |-> IF v = "lean" THEN 1 ELSE 5,
     solutionTextSize |-> IF v = "lean" THEN 0 ELSE 4,
     triangleSolutionCards |-> [k \in 1..T |-> TriRing(k, v)],
     triangleSolutionOrientation |-> [i \in 1..TableLen(T, v, "shortsol") |-> 180 * ((i - 1) % 2)],
     trianglePuzzleOrientation |-> [j \in 1..TableLen(T, v, "shortpuz") |-> <<60 * (j - 1), 180>>],
     squareSolutionCards |-> [k \in 1..S |-> SqRing(k, v)],
     squareSolutionOrientation |-> [i \in 1..TableLen(S, v, "shortsol") |-> 90 * (i - 1)],
     squarePuzzleOrientation |-> [j \in 1..TableLen(S, v, "shortpuz") |-> <<90 * (j - 1), 0>>]]

LayoutFiles == {LayoutFile(c[1], c[2], v) : c \in {x \in (0..MaxCards) \X (0..MaxCards) : x[1] + x[2] <= MaxCards}, v \in LayoutKinds}

---------------------------------------------------------------------------
(* generate_jigsaw, lines 589-705 *)

\* the stage that follows stage s: lines 686, 689, 692
After(s, lay) ==
    CASE s = "start" /\ lay.table -> "table"
      [] s \in {"start", "table"} /\ lay.hasTri -> "triangles"
      [] s \in {"start", "table", "triangles"} /\ lay.hasSq -> "squares"
      [] OTHER -> "legend"

\* the draws of a shuffle that is made only if requested
DrawsIf(flag, n) == IF flag THEN ShuffleDraws(n) ELSE {<<>>}

ShuffleIf(flag, x, js) == IF flag THEN Shuffle(x, js) ELSE x

NumDraws(flag, n) == IF flag /\ n > 1 THEN n - 1 ELSE 0

\* a flip that puts the answer in both places
FlippedAnswerTwice(flip, ps, coins) ==
    IF flip
    THEN [k \in 1..Len(ps) |-> IF coins[k] THEN <<ps[k][2], ps[k][2]>> ELSE <<ps[k][1], ps[k][2]>>]
    ELSE ps

\* lines 671-679
Flipped(flip, ps, coins) ==
    IF flip
    THEN [k \in 1..Len(ps) |-> IF coins[k] THEN <<ps[k][2], ps[k][1]>> ELSE <<ps[k][1], ps[k][2]>>]
    ELSE ps

\* a start that leaves exists_hidden as the run before left it
FlagKept(old) == old

\* lines 683-684: the value exists_hidden has when the formatting starts
FlagAtStart(old) == FALSE

\* lines 695-702
Legend(flag, text) == IF flag THEN text ELSE <<>>

NoCards == <<>>

\* what lines 183-187 of Lib/random.py seed the generator with when the
\* module is imported: a value no two processes share
Entropy == IF prev.valid THEN <<"urandom", "2">> ELSE <<"urandom", "1">>

\* a generator left as the import seeded it
SeedFromEntropy(title, entropy) == entropy

\* line 596: random.seed(dsubs['title']) replaces the seed of the import
SeedOf(title, entropy) == title

\* lines 589-684 with the draws pj, ej, cj of the shuffles and the coins of
\* the flip: the maps, the seed, the lists and the flag
Begin(lay, d, pj, ej, cj, coins) ==
    /\ layout' = lay
    /\ data' = d
    /\ dsubs' = Put(<<>>, <<"title", 0>>, d.title)
    /\ dsubsmd' = <<>>
    /\ pairs' = ShuffleIf(d.shufflePairs, d.pairs, pj)
    /\ edges' = ShuffleIf(d.shuffleEdges, d.edges, ej)
    /\ cards' = ShuffleIf(d.shuffleCards, d.cards, cj)
    /\ flippedpairs' = Flipped(d.flip, pairs', coins)
    /\ rng' = [seed |-> SeedOf(d.title, Entropy),
               pos |-> NumDraws(d.shufflePairs, Len(d.pairs)) + NumDraws(d.shuffleEdges, Len(d.edges))
                         + NumDraws(d.shuffleCards, Len(d.cards)) + (IF d.flip THEN Len(d.pairs) ELSE 0)]
    /\ pc' = After("start", lay)
    /\ hidden_at_entry' = exists_hidden
    /\ exists_hidden' = FlagAtStart(exists_hidden)
    /\ made' = {}
    /\ err' = ""
    /\ trianglesolcard' = NoCards /\ trianglepuzcard' = NoCards /\ triangleorder' = <<>> /\ trianglerot' = <<>>
    /\ squaresolcard' = NoCards /\ squarepuzcard' = NoCards /\ squareorder' = <<>> /\ squarerot' = <<>>
    /\ UNCHANGED <<ecall, acall>>

\* generate_jigsaw is called: any layout file, any puzzle file, any draws
GenStart ==
    /\ pc = "idle"
    /\ \E lay \in LayoutFiles, d \in DataFiles :
         \E pj \in DrawsIf(d.shufflePairs, Len(d.pairs)), ej \in DrawsIf(d.shuffleEdges, Len(d.edges)),
            cj \in DrawsIf(d.shuffleCards, Len(d.cards)), coins \in [1..(IF d.flip THEN Len(d.pairs) ELSE 0) -> BOOLEAN] :
            Begin(lay, d, pj, ej, cj, coins)
    /\ UNCHANGED seedvars

\* a call of make_table that is given the flipped list
MakeTableFlipped ==
    /\ pc = "table"
    /\ LET r == make_table(flippedpairs, edges, cards, dsubs, dsubsmd)
       IN  /\ dsubs' = r.dsubs
           /\ dsubsmd' = r.dsubsmd
           /\ exists_hidden' = (exists_hidden \/ r.sets)
    /\ made' = made \cup {"table"}
    /\ pc' = After("table", layout)
    /\ UNCHANGED <<hidden_at_entry, err, rng, layout, data, pairs, edges, cards, flippedpairs, trivars, sqvars, ecall, acall, seedvars>>

\* lines 686-687
MakeTable ==
    /\ pc = "table"
    /\ LET r == make_table(pairs, edges, cards, dsubs, dsubsmd)
       IN  /\ dsubs' = r.dsubs
           /\ dsubsmd' = r.dsubsmd
           /\ exists_hidden' = (exists_hidden \/ r.sets)
    /\ made' = made \cup {"table"}
    /\ pc' = After("table", layout)
    /\ UNCHANGED <<hidden_at_entry, err, rng, layout, data, pairs, edges, cards, flippedpairs, trivars, sqvars, ecall, acall, seedvars>>

\* lines 689-690 with the draws js of the shuffle and rots of the rotations
Triangles(js, rots) ==
    /\ LET r == make_triangles(layout, flippedpairs, edges, dsubs, dsubsmd, exists_hidden, js, rots)
       IN  /\ dsubs' = r.dsubs
           /\ dsubsmd' = r.dsubsmd
           /\ exists_hidden' = r.hid
           /\ rng' = [rng EXCEPT !.pos = @ + r.draws]
           /\ trianglesolcard' = r.sol
           /\ trianglepuzcard' = r.puz
           /\ triangleorder' = r.order
           /\ trianglerot' = r.rot
           /\ err' = r.err
           /\ made' = IF r.err = "" THEN made \cup {"triangles"} ELSE made
           /\ pc' = IF r.err = "" THEN After("triangles", layout) ELSE "aborted"
    /\ UNCHANGED <<hidden_at_entry, layout, data, pairs, edges, cards, flippedpairs, sqvars, ecall, acall>>

\* make_triangles is called: any draws
MakeTriangles ==
    /\ pc = "triangles"
    /\ \E js \in ShuffleDraws(Len(layout.triangleSolutionCards)), rots \in [1..Len(layout.triangleSolutionCards) -> 0..2] :
         Triangles(js, rots)
    /\ UNCHANGED seedvars

\* lines 692-693 with the draws js of the shuffle and rots of the rotations
Squares(js, rots) ==
    /\ LET r == make_squares(layout, flippedpairs, edges, dsubs, dsubsmd, exists_hidden, js, rots)
       IN  /\ dsubs' = r.dsubs
           /\ dsubsmd' = r.dsubsmd
           /\ exists_hidden' = r.hid
           /\ rng' = [rng EXCEPT !.pos = @ + r.draws]
           /\ squaresolcard' = r.sol
           /\ squarepuzcard' = r.puz
           /\ squareorder' = r.order
           /\ squarerot' = r.rot
           /\ err' = r.err
           /\ made' = IF r.err = "" THEN made \cup {"squares"} ELSE made
           /\ pc' = IF r.err = "" THEN "legend" ELSE "aborted"
    /\ UNCHANGED <<hidden_at_entry, layout, data, pairs, edges, cards, flippedpairs, trivars, ecall, acall>>

\* make_squares is called: any draws
MakeSquares ==
    /\ pc = "squares"
    /\ \E js \in ShuffleDraws(Len(layout.squareSolutionCards)), rots \in [1..Len(layout.squareSolutionCards) -> 0..3] :
         Squares(js, rots)
    /\ UNCHANGED seedvars

\* lines 695-705
WriteLegend ==
    /\ pc = "legend"
    /\ dsubs' = Put(Put(Put(dsubs, <<"hiddennotesolution", 0>>, Legend(exists_hidden, <<"Entries that are hidden in the puzzle are highlighted in yellow.">>)),
                        <<"hiddennotetable", 0>>, Legend(exists_hidden, <<"Entries that are hidden in the puzzle are indicated with (*).">>)),
                    <<"puzzlenote", 0>>, data.note)
    /\ dsubsmd' = Put(Put(dsubsmd, <<"hiddennotemd", 0>>, Legend(exists_hidden, <<"Entries that are hidden in the puzzle are indicated with (*).">>)),
                      <<"puzzlenote", 0>>, data.note)
    /\ pc' = "done"
    /\ UNCHANGED <<exists_hidden, hidden_at_entry, made, err, rng, layout, data, pairs, edges, cards, flippedpairs, trivars, sqvars, ecall, acall, seedvars>>

NoCall == [called |-> FALSE]

Returned0 == [out |-> <<>>, sets |-> FALSE, diag |-> "none", exit |-> FALSE]

NoLayout == LayoutFile(0, 0, "lean")

NoData == DataFile(<<>>, <<>>, <<>>, <<>>, FALSE, FALSE)

\* no run before this one
NoRun ==
    [valid |-> FALSE, ended |-> "", inputs |-> <<>>, layout |-> NoLayout,
     triangleorder |-> <<>>, trianglerot |-> <<>>, squareorder |-> <<>>, squarerot |-> <<>>]

\* generate_jigsaw returns, or the exception leaves it: its locals are gone
Leave ==
    /\ pc \in {"done", "aborted"}
    /\ pc' = "idle"
    /\ made' = {}
    /\ err' = ""
    /\ layout' = NoLayout
    /\ data' = NoData
    /\ pairs' = <<>> /\ edges' = <<>> /\ cards' = <<>> /\ flippedpairs' = <<>>
    /\ dsubs' = <<>> /\ dsubsmd' = <<>>
    /\ trianglesolcard' = NoCards /\ trianglepuzcard' = NoCards /\ triangleorder' = <<>> /\ trianglerot' = <<>>
    /\ squaresolcard' = NoCards /\ squarepuzcard' = NoCards /\ squareorder' = <<>> /\ squarerot' = <<>>
    /\ UNCHANGED <<exists_hidden, hidden_at_entry, rng, ecall, acall>>

\* the run is over and the process may call generate_jigsaw again
Return == Leave /\ UNCHANGED seedvars

Init ==
    /\ pc = "idle"
    /\ exists_hidden = FALSE
    /\ hidden_at_entry = FALSE
    /\ made = {}
    /\ err = ""
    /\ rng = [seed |-> <<>>, pos |-> 0]
    /\ layout = NoLayout
    /\ data = NoData
    /\ pairs = <<>> /\ edges = <<>> /\ cards = <<>> /\ flippedpairs = <<>>
    /\ dsubs = <<>> /\ dsubsmd = <<>>
    /\ trianglesolcard = NoCards /\ trianglepuzcard = NoCards /\ triangleorder = <<>> /\ trianglerot = <<>>
    /\ squaresolcard = NoCards /\ squarepuzcard = NoCards /\ squareorder = <<>> /\ squarerot = <<>>
    /\ ecall = NoCall
    /\ acall = NoCall
    /\ tape = <<>>
    /\ history = <<>>
    /\ prev = NoRun

Next == GenStart \/ MakeTable \/ MakeTriangles \/ MakeSquares \/ WriteLegend \/ Return

Spec == Init /\ [][Next]_vars

---------------------------------------------------------------------------
(* make_entry on its own: any entry, default size, hide mode and style,    *)
(* whatever exists_hidden was left at by the calls before.                 *)

EntryTexts == {<<>>, <<"x">>, ImageText}

TextFields == {<<FALSE, <<>>>>} \cup {<<TRUE, t>> : t \in EntryTexts}

SizeFields == {<<FALSE, FALSE, 0>>, <<TRUE, FALSE, 0>>} \cup {<<TRUE, TRUE, n>> : n \in (-MaxDelta)..MaxDelta}

HiddenFields == {<<FALSE, FALSE>>, <<TRUE, FALSE>>, <<TRUE, TRUE>>}

DictEntries ==
    {[isdict |-> TRUE, hastext |-> t[1], text |-> t[2], hassize |-> z[1], sizeok |-> z[2], size |-> z[3], hashidden |-> h[1], hidden |-> h[2]] :
        t \in TextFields, z \in SizeFields, h \in HiddenFields}

AllEntries == {Plain(t) : t \in EntryTexts} \cup DictEntries

HideModes == {"hide", "mark", "ignore", "other"}

Styles == {"table", "tikz", "md"}

EntryCalls ==
    {[called |-> FALSE, entry |-> e, defaultsize |-> d, hide |-> h, style |-> st, before |-> FALSE, result |-> Returned0] :
        e \in AllEntries, d \in 0..(Len(sizes) - 1), h \in HideModes, st \in Styles}

Idle ==
    /\ tape = <<>>
    /\ history = <<>>
    /\ prev = NoRun
    /\ hidden_at_entry = FALSE
    /\ made = {}
    /\ err = ""
    /\ rng = [seed |-> <<>>, pos |-> 0]
    /\ layout = NoLayout
    /\ data = NoData
    /\ pairs = <<>> /\ edges = <<>> /\ cards = <<>> /\ flippedpairs = <<>>
    /\ dsubs = <<>> /\ dsubsmd = <<>>
    /\ trianglesolcard = NoCards /\ trianglepuzcard = NoCards /\ triangleorder = <<>> /\ trianglerot = <<>>
    /\ squaresolcard = NoCards /\ squarepuzcard = NoCards /\ squareorder = <<>> /\ squarerot = <<>>

InitEntry ==
    /\ pc = "entry"
    /\ exists_hidden \in BOOLEAN
    /\ ecall \in EntryCalls
    /\ acall = NoCall
    /\ Idle

\* the call of make_entry, lines 101-141
EntryCall ==
    /\ pc = "entry"
    /\ ~ecall.called
    /\ ecall' = [ecall EXCEPT !.called = TRUE, !.before = exists_hidden,
                              !.result = make_entry(ecall.entry, ecall.defaultsize, ecall.hide, ecall.style)]
    /\ exists_hidden' = IF ecall'.result.sets THEN TRUE ELSE exists_hidden
    /\ pc' = IF ecall'.result.exit THEN "exited" ELSE "entry"
    /\ UNCHANGED <<runvars, trivars, sqvars, acall, seedvars>>

SpecEntry == InitEntry /\ [][EntryCall]_vars

---------------------------------------------------------------------------
(* The number angle on its own: any orientations and rotation *)

Turns == {30 * k : k \in (-MaxTurn)..MaxTurn}

AngleCalls ==
    {[called |-> FALSE, numpuz |-> a, basesol |-> b, basepuz |-> c, step |-> sr[1], rot |-> sr[2], angle |-> 0, result |-> 0] :
        a \in Turns, b \in Turns, c \in (-MaxOffset)..MaxOffset, sr \in ({120} \X (0..2)) \cup ({90} \X (0..3))}

InitAngle ==
    /\ pc = "angle"
    /\ exists_hidden = FALSE
    /\ ecall = NoCall
    /\ acall \in AngleCalls
    /\ Idle

\* lines 275-278 and 380-384
AngleCall ==
    /\ pc = "angle"
    /\ ~acall.called
    /\ acall' = [acall EXCEPT !.called = TRUE,
                              !.angle = NumberAngle(acall.numpuz, acall.basesol, acall.basepuz, acall.step, acall.rot),
                              !.result = Normalize(NumberAngle(acall.numpuz, acall.basesol, acall.basepuz, acall.step, acall.rot))]
    /\ UNCHANGED <<pc, exists_hidden, runvars, trivars, sqvars, ecall, seedvars>>

SpecAngle == InitAngle /\ [][AngleCall]_vars

---------------------------------------------------------------------------
(* Properties of the runs *)

NumTriangles == Len(layout.triangleSolutionCards)

NumSquares == Len(layout.squareSolutionCards)

IsPermutation(order, n) == Len(order) = n /\ \A j \in 0..(n - 1) : Cardinality({i \in 1..n : order[i] = j}) = 1

\* the ring of puz is the ring of sol, of n entries, turned by some amount
IsTurnOf(puz, sol, n) == \E r \in 0..(n - 1) : \A k \in 0..(n - 1) : puz[k + 1] = sol[((k + n - r) % n) + 1]

\* position order[i] of the puzzle list holds a card made of solution card i,
\* and no position is the empty list the loop started from
Placed(puz, sol, order, n) ==
    /\ Len(puz) = Len(order)
    /\ \A i \in 1..Len(order) : IsTurnOf(puz[order[i] + 1], sol[i], n)
    /\ \A j \in 1..Len(puz) : puz[j] # <<>>

\* C1: once make_triangles (make_squares) has returned, its order list is a
\* permutation of 0..n-1, every puzzle position j holds the card made of the
\* one solution card i with order[i] = j, and no position is left empty.
C1_Permutation ==
    /\ "triangles" \in made =>
          IsPermutation(triangleorder, NumTriangles) /\ Placed(trianglepuzcard, trianglesolcard, triangleorder, 3)
    /\ "squares" \in made =>
          IsPermutation(squareorder, NumSquares) /\ Placed(squarepuzcard, squaresolcard, squareorder, 4)

\* a run that put triangle 1 at position 1 and triangle 2 at position 0
C1_Witness == pc = "done" /\ "triangles" \in made /\ triangleorder = <<1, 0>>

Ring4(card) == SubSeq(card, 1, 4)

\* C2, as stated: a square card [a, b, c, d] placed with rot = 1 has the
\* puzzle ring [b, c, d, a].
C2_ScenarioA ==
    "squares" \in made =>
        \A i \in 1..Len(squarerot) :
            squarerot[i] = 1 =>
                Ring4(squarepuzcard[squareorder[i] + 1]) = <<squaresolcard[i][2], squaresolcard[i][3], squaresolcard[i][4], squaresolcard[i][1]>>

\* C2, amended: a square card [a, b, c, d] placed with rot = 1 has the
\* puzzle ring [d, a, b, c]: slot k holds the entry of solution slot
\* (k + 4 - rot) mod 4.
C2_RotOne ==
    "squares" \in made =>
        \A i \in 1..Len(squarerot) :
            squarerot[i] = 1 =>
                Ring4(squarepuzcard[squareorder[i] + 1]) = <<squaresolcard[i][4], squaresolcard[i][1], squaresolcard[i][2], squaresolcard[i][3]>>

\* a square card of four different entries was placed with rot = 1
C2_Witness ==
    /\ "squares" \in made
    /\ \E i \in 1..Len(squarerot) : squarerot[i] = 1 /\ Cardinality({squaresolcard[i][k] : k \in 1..4}) = 4

---------------------------------------------------------------------------
(* Properties of the number angle *)

\* C3, as stated: the stored number angle lies in (-180, 180].
C3_HalfOpenAbove == acall.called => acall.result > -180 /\ acall.result <= 180

\* C3, amended: the stored number angle lies in [-180, 180): -180 is a
\* value, 180 is not.
C3_HalfOpenBelow == acall.called => acall.result >= -180 /\ acall.result < 180

\* an angle of half a turn is stored as -180
C3_Witness == acall.called /\ acall.angle % 360 = 180 /\ acall.result = -180

---------------------------------------------------------------------------
(* Properties of make_entry *)

\* the call was made on a dictionary entry with a true hidden, to mark or hide it
HiddenCall == ecall.called /\ ecall.entry.isdict /\ ecall.entry.hashidden /\ ecall.entry.hidden /\ ecall.hide \in {"mark", "hide"}

\* C4, as stated: after make_entry is called with 'mark' or 'hide' on a
\* record entry with hidden = true, whatever its other fields are,
\* exists_hidden is true.
C4_AnyHiddenRecord == HiddenCall => exists_hidden

\* C4, amended: after make_entry is called with 'mark' or 'hide' on a
\* record entry that has a text field and hidden = true, whatever its text
\* and size are, exists_hidden is true.
C4_HiddenWithText == HiddenCall /\ ecall.entry.hastext => exists_hidden

\* the flag was false and a call that hides a hidden text made it true
C4_Witness == HiddenCall /\ ecall.entry.hastext /\ ecall.hide = "hide" /\ ~ecall.before /\ exists_hidden

\* the text make_entry passes on for display
DisplayText == ReturnText(ReturnLine(ecall.entry, ecall.hide), ecall.entry)

\* C9, as stated: in md style, for every entry and hide mode, an empty
\* display text is rendered with the placeholder (BLANK), and the plain
\* empty entry is rendered as ' (BLANK) '.
C9_BlankPlaceholder ==
    ecall.called /\ ecall.style = "md" /\ ecall.hide \in {"hide", "mark", "ignore"} /\ DisplayText = <<>> =>
        /\ \E k \in 1..Len(ecall.result.out) : ecall.result.out[k] = "(BLANK)"
        /\ ~ecall.entry.isdict => ecall.result.out = <<" ", "(BLANK)", " ">>

---------------------------------------------------------------------------
(* Properties of the runs: failures *)

\* C5, as stated: an edge reference whose kind letter is not Q, A or E does
\* not abort the run: no run ends in the exception of that branch, and every
\* ring of a resolved card list keeps its full length, 3 or 4 (the card then
\* has 5 or 6 elements once the loop has added its number and angle).
C5_Degrades ==
    /\ err # "NameError"
    /\ "triangles" \in made => \A i \in 1..Len(trianglesolcard) : Len(trianglesolcard[i]) = 5
    /\ "squares" \in made => \A i \in 1..Len(squaresolcard) : Len(squaresolcard[i]) = 6

TriMismatch ==
    \/ NumTriangles # Len(layout.triangleSolutionOrientation)
    \/ NumTriangles # Len(layout.trianglePuzzleOrientation)

SqMismatch ==
    \/ NumSquares # Len(layout.squareSolutionOrientation)
    \/ NumSquares # Len(layout.squarePuzzleOrientation)

\* the function of a shape whose tables do not match its cards is about to run
MismatchStep == (pc = "triangles" /\ TriMismatch) \/ (pc = "squares" /\ SqMismatch)

\* C6, as stated: when the number of cards of a shape differs from the
\* number of rows of one of its orientation tables, the function of that
\* shape aborts the run with no random draw made and no slot written.
C6_AbortsFirst == [][MismatchStep => pc' = "aborted" /\ rng' = rng /\ dsubs' = dsubs]_vars

---------------------------------------------------------------------------
(* Properties of the runs: the flag, the numbers, the hidden entries *)

HiddenOn(card, n) == \E k \in 1..n : IsHidden(card[k])

\* the entries of a card are formatted once the loop has added its number
\* and angle, lines 278-291 and 384-399
HiddenOnFormatted(sol, n) == \E i \in 1..Len(sol) : Len(sol[i]) = n + 2 /\ HiddenOn(sol[i], n)

\* the run has formatted an entry with a text and a true hidden
FormattedHidden ==
    \/ "table" \in made /\ \E e \in TableEntries(pairs, edges, cards) : IsHidden(e)
    \/ HiddenOnFormatted(trianglesolcard, 3)
    \/ HiddenOnFormatted(squaresolcard, 4)

Slot(d, k) == IF k \in DOMAIN d THEN d[k] ELSE <<>>

LegendWritten ==
    \/ Slot(dsubs, <<"hiddennotesolution", 0>>) # <<>>
    \/ Slot(dsubs, <<"hiddennotetable", 0>>) # <<>>
    \/ Slot(dsubsmd, <<"hiddennotemd", 0>>) # <<>>

\* C7: exists_hidden is reset when a run starts, before any entry is
\* formatted: inside a run the flag is true only if this run has formatted
\* a hidden entry, and the legend slots of the run are non-empty only then,
\* whatever the runs before it formatted.
C7_RunScoped ==
    /\ pc # "idle" /\ exists_hidden => FormattedHidden
    /\ LegendWritten => FormattedHidden

\* a run that started with the flag left true by the run before and ended
\* with no legend
C7_Witness == pc = "done" /\ hidden_at_entry /\ ~LegendWritten /\ Slot(dsubs, <<"title", 0>>) = <<>>

\* the labels on the puzzle pieces
PuzzleLabels == {trianglepuzcard[j][4] : j \in 1..Len(trianglepuzcard)} \cup {squarepuzcard[j][5] : j \in 1..Len(squarepuzcard)}

\* C8: solution piece i and the puzzle piece at position order[i] carry the
\* same label, the number order[i] + 1 for triangles and order[i] + 1 + T for
\* squares; the labels on the puzzle pieces of a finished run are pairwise
\* distinct and are the numbers 1..T+S.
C8_CardNumbers ==
    /\ "triangles" \in made =>
          \A i \in 1..NumTriangles :
              /\ trianglesolcard[i][4] = cardnum(triangleorder[i] + 1)
              /\ trianglepuzcard[triangleorder[i] + 1][4] = cardnum(triangleorder[i] + 1)
    /\ "squares" \in made =>
          \A i \in 1..NumSquares :
              /\ squaresolcard[i][5] = cardnum(squareorder[i] + 1 + NumTriangles)
              /\ squarepuzcard[squareorder[i] + 1][5] = cardnum(squareorder[i] + 1 + NumTriangles)
    /\ pc = "done" =>
          /\ PuzzleLabels = {cardnum(n) : n \in 1..(NumTriangles + NumSquares)}
          /\ Cardinality(PuzzleLabels) = Len(trianglepuzcard) + Len(squarepuzcard)

\* a finished run with a triangle numbered 1 and a square numbered 2
C8_Witness ==
    /\ pc = "done" /\ NumTriangles = 1 /\ NumSquares = 1
    /\ trianglesolcard[1][4] = <<"1">> /\ squaresolcard[1][5] = <<"2">>

\* an entry with its text and size taken away if it is hidden
Redact(e) == IF IsHidden(e) THEN Rich(<<>>, TRUE) ELSE e

RedactCard(card, n) == [k \in 1..Len(card) |-> IF k <= n THEN Redact(card[k]) ELSE card[k]]

RedactCards(puz, n) == [j \in 1..Len(puz) |-> RedactCard(puz[j], n)]

\* the puzzle cards whose rows a function that returned has written
RedactedFaces(shape, puz, n) == IF shape \in made THEN RedactCards(puz, n) ELSE <<>>

\* the rendering of empty unmarked content: make_entry_util('', '', False, style)
HiddenFace(style) ==
    CASE style = "table" -> <<>>
      [] style = "tikz" -> <<"{regular}{", "", " ", "}">>
      [] style = "md" -> <<" ", "(BLANK)", " ">>

\* every hidden entry of every text and size offset is rendered in hide mode
\* as empty unmarked content, at the puzzle text size of the layout
HiddenAlike ==
    \A t \in EntryTexts, z \in {-MaxDelta, 0, MaxDelta}, st \in Styles :
        EntryOut(Sized(t, z, TRUE), layout.puzzleTextSize, "hide", st) = HiddenFace(st)

\* C10: in hide mode every hidden entry is rendered as empty unmarked
\* content, whatever its text and size offset; every puzzle-face slot
\* (tripuzcard*, sqpuzcard*, puzcards3, puzcards4) is what it would be with
\* the text and size of the hidden entries taken away.
C10_HideRevealsNothing ==
    /\ HiddenAlike
    /\ "triangles" \in made =>
          \A j \in 1..Len(trianglepuzcard) :
              dsubs[<<"tripuzcard", j>>] = TriSlot(RedactCard(trianglepuzcard[j], 3), layout.puzzleTextSize, "hide")
    /\ "squares" \in made =>
          \A j \in 1..Len(squarepuzcard) :
              dsubs[<<"sqpuzcard", j>>] = SqSlot(RedactCard(squarepuzcard[j], 4), layout.puzzleTextSize, "hide")
    /\ Slot(dsubsmd, <<"puzcards3", 0>>) = Rows3(RedactedFaces("triangles", trianglepuzcard, 3))
    /\ Slot(dsubsmd, <<"puzcards4", 0>>) = Rows3in4(RedactedFaces("triangles", trianglepuzcard, 3)) \o Rows4(RedactedFaces("squares", squarepuzcard, 4))

\* a finished run with a hidden text on a triangle and on a square of the puzzle
C10_Witness ==
    /\ pc = "done"
    /\ \E j \in 1..Len(trianglepuzcard) : \E k \in 1..3 : IsHidden(trianglepuzcard[j][k]) /\ trianglepuzcard[j][k].text # <<>>
    /\ \E j \in 1..Len(squarepuzcard) : \E k \in 1..4 : IsHidden(squarepuzcard[j][k]) /\ squarepuzcard[j][k].text # <<>>

---------------------------------------------------------------------------
(* Properties of make_entry: the size *)

Max2(a, b) == IF a > b THEN a ELSE b

Min2(a, b) == IF a < b THEN a ELSE b

\* the call was made in tikz style on a dictionary entry with a text and
\* returned at a statement that picks a size keyword (lines 131, 133, 138)
SizedCall ==
    /\ ecall.called /\ ecall.style = "tikz"
    /\ ecall.entry.isdict /\ ecall.entry.hastext
    /\ ReturnLine(ecall.entry, ecall.hide) \in {131, 133, 138}

\* the size keyword of a tikz entry: "{regular}{%s %s}" % (size, text)
SizeKeyword == ecall.result.out[2]

\* C11: for every default size index d in 0..9 and every integer size
\* offset s of a record entry, the size keyword is the one of index
\* min(9, max(0, d + s)), an index in 0..9; for a record with no size
\* offset it is the one of index d.
C11_SizeClamp ==
    SizedCall =>
        /\ ecall.entry.hassize /\ ecall.entry.sizeok =>
              /\ Min2(9, Max2(0, ecall.defaultsize + ecall.entry.size)) \in 0..9
              /\ SizeKeyword = sizes[Min2(9, Max2(0, ecall.defaultsize + ecall.entry.size)) + 1]
        /\ ~ecall.entry.hassize => SizeKeyword = sizes[ecall.defaultsize + 1]

\* default size 4 and offset 7 give the keyword of index 9
C11_Witness ==
    /\ SizedCall /\ ecall.entry.hassize /\ ecall.entry.sizeok
    /\ ecall.defaultsize = 4 /\ ecall.entry.size = 7
    /\ SizeKeyword = "\\Huge"

---------------------------------------------------------------------------
(* Properties of the runs: the table and the flipped list *)

\* the draws generate_jigsaw has made when it calls make_table, lines 662-679
DrawsAtStart ==
    NumDraws(data.shufflePairs, Len(data.pairs)) + NumDraws(data.shuffleEdges, Len(data.edges))
        + NumDraws(data.shuffleCards, Len(data.cards)) + (IF data.flip THEN Len(data.pairs) ELSE 0)

\* the rows of the pair list, question first and answer second
QuestionFirstRows ==
    Concat([k \in 1..Len(pairs) |->
               EntryOut(pairs[k][1], normalsize, "mark", "table") \o <<"&">> \o EntryOut(pairs[k][2], normalsize, "mark", "table") \o <<"\\\\ \\hline", "\n">>], 1)

QuestionFirstMdRows ==
    Concat([k \in 1..Len(pairs) |->
               <<"|">> \o EntryOut(pairs[k][1], 0, "mark", "md") \o <<"|">> \o EntryOut(pairs[k][2], 0, "mark", "md") \o <<"|", "\n">>], 1)

\* the pair list is the list of the data file, in its order unless shuffled,
\* every pair as the data file has it
PairsAsGiven ==
    /\ Len(pairs) = Len(data.pairs)
    /\ \A k \in 1..Len(pairs) : \E n \in 1..Len(data.pairs) : pairs[k] = data.pairs[n]
    /\ ~data.shufflePairs => pairs = data.pairs

\* C13: make_table never sees the flipped list and draws no random number:
\* whatever the flip coins were, row k of tablepairs and of the markdown
\* pairs block is pair k of the pair list, question first and answer
\* second; the edge and card blocks have one row per item in list order.
C13_TableUnflipped ==
    "table" \in made =>
        /\ PairsAsGiven
        /\ dsubs[<<"tablepairs", 0>>] = QuestionFirstRows
        /\ dsubsmd[<<"pairs", 0>>] = QuestionFirstMdRows
        /\ dsubs[<<"tableedges", 0>>] = TableRows(edges) /\ dsubsmd[<<"edges", 0>>] = MdRows(edges)
        /\ dsubs[<<"tablecards", 0>>] = TableRows(cards) /\ dsubsmd[<<"cards", 0>>] = MdRows(cards)
        /\ made = {"table"} /\ pc # "aborted" => rng.pos = DrawsAtStart

\* the table was made in a run whose coins swapped some pair
C13_Witness == "table" \in made /\ data.flip /\ \E k \in 1..Len(pairs) : flippedpairs[k] = <<pairs[k][2], pairs[k][1]>>

---------------------------------------------------------------------------
(* Properties of the runs: the rotation *)

\* the ring the layout gives solution card i: its references resolved in
\* the flipped pair list and the edge list
LayoutRing(cardlist, i) == [k \in 1..Len(cardlist[i]) |-> ResolveRef(cardlist[i][k], flippedpairs, edges).entry]

\* slot k of the puzzle ring is slot (k + n - rot) mod n of the solution
\* ring, slots counted from 0
TurnedBy(puz, sol, n, rot) == \A k \in 0..(n - 1) : puz[k + 1] = sol[((k + n - rot) % n) + 1]

\* C14: for every solution card i, placed with rotation rot in 0..L-1 (L = 3
\* for triangles, 4 for squares), slot k of the puzzle ring at position
\* order[i] is slot (k + L - rot) mod L of the solution ring, and the
\* solution card keeps the ring of the layout, unrotated.
C14_RotationIndexing ==
    /\ "triangles" \in made =>
          \A i \in 1..NumTriangles :
              /\ trianglerot[i] \in 0..2
              /\ TurnedBy(trianglepuzcard[triangleorder[i] + 1], trianglesolcard[i], 3, trianglerot[i])
              /\ SubSeq(trianglesolcard[i], 1, 3) = LayoutRing(layout.triangleSolutionCards, i)
    /\ "squares" \in made =>
          \A i \in 1..NumSquares :
              /\ squarerot[i] \in 0..3
              /\ TurnedBy(squarepuzcard[squareorder[i] + 1], squaresolcard[i], 4, squarerot[i])
              /\ SubSeq(squaresolcard[i], 1, 4) = LayoutRing(layout.squareSolutionCards, i)

\* two triangles, one placed with rot = 1 and one with rot = 2
C14_Witness == pc = "done" /\ "triangles" \in made /\ trianglerot = <<1, 2>>

\* what the references Qn and An resolve to on the pieces, lines 237-242
ResolvedQ(n) == ResolveRef(Ref("Q", n), flippedpairs, edges)

ResolvedA(n) == ResolveRef(Ref("A", n), flippedpairs, edges)

\* the entry a reference of kind Q or A of a piece must be
HalfOf(ref) == IF ref.kind = "Q" THEN ResolvedQ(ref.num).entry ELSE ResolvedA(ref.num).entry

\* the Q and A references of the solution cards resolved as the flipped list has them
PiecesUse(cardlist, sol) ==
    \A i \in 1..Len(cardlist) : \A k \in 1..Len(cardlist[i]) :
        cardlist[i][k].kind \in {"Q", "A"} => sol[i][k] = HalfOf(cardlist[i][k])

\* C15: whatever the flip coins were, the flipped list has the length and
\* the order of the pair list and its element n is (q_n, a_n) or (a_n, q_n);
\* the references Qn and An resolve without error to the two halves of pair
\* n, one each, on every piece that uses them; when flip is not requested
\* Qn is q_n and An is a_n.
C15_FlipKeepsPairs ==
    /\ Len(flippedpairs) = Len(pairs)
    /\ \A n \in 1..Len(pairs) :
          /\ flippedpairs[n] \in {<<pairs[n][1], pairs[n][2]>>, <<pairs[n][2], pairs[n][1]>>}
          /\ ResolvedQ(n).err = "" /\ ResolvedA(n).err = ""
          /\ \/ ResolvedQ(n).entry = pairs[n][1] /\ ResolvedA(n).entry = pairs[n][2]
             \/ ResolvedQ(n).entry = pairs[n][2] /\ ResolvedA(n).entry = pairs[n][1]
          /\ ~data.flip => ResolvedQ(n).entry = pairs[n][1] /\ ResolvedA(n).entry = pairs[n][2]
    /\ "triangles" \in made => PiecesUse(layout.triangleSolutionCards, trianglesolcard)
    /\ "squares" \in made => PiecesUse(layout.squareSolutionCards, squaresolcard)

\* a finished run whose coins swapped pair 1 and kept pair 2, with triangles
C15_Witness ==
    /\ pc = "done" /\ data.flip /\ "triangles" \in made /\ Len(pairs) = 2
    /\ flippedpairs[1] = <<pairs[1][2], pairs[1][1]>> /\ flippedpairs[1] # pairs[1]
    /\ flippedpairs[2] = pairs[2]

----------------------------------------------------------------------------
\* Two runs of generate_jigsaw and the streams of the generator.  A stream
\* is a function of its seed (Lib/random.py, seed and _randbelow): a draw
\* is decided by the seed and by the ranges of the draws made since the
\* seeding, its own included.  tape[seed] holds the draws known so far.

\* the draws of random.shuffle on n items, each with its range: for
\* i = n-1 down to 1, randbelow(i + 1)
ShuffleTape(n, js) == [d \in 1..(n - 1) |-> <<n - d + 1, js[n - d]>>]

\* line 673: random.choice([True, False]) is [True, False][randbelow(2)]
CoinTape(coins) == [k \in 1..Len(coins) |-> <<2, IF coins[k] THEN 0 ELSE 1>>]

\* lines 266 and 369: random.randint(0, turns - 1) is randbelow(turns)
RotTape(rots, turns) == [k \in 1..Len(rots) |-> <<turns, rots[k]>>]

\* lines 662-677: the draws made before the shapes
StartTape(d, pj, ej, cj, coins) ==
    (IF d.shufflePairs THEN ShuffleTape(Len(d.pairs), pj) ELSE <<>>)
      \o (IF d.shuffleEdges THEN ShuffleTape(Len(d.edges), ej) ELSE <<>>)
      \o (IF d.shuffleCards THEN ShuffleTape(Len(d.cards), cj) ELSE <<>>)
      \o CoinTape(coins)

\* lines 257-266 and 360-369: the shuffle of the order, then one rotation
\* for each card the loop reaches
ShapeTape(n, js, rots, turns, made_draws) == SubSeq(ShuffleTape(n, js) \o RotTape(rots, turns), 1, made_draws)

DrawRanges(ds) == [k \in 1..Len(ds) |-> ds[k][1]]

History(h0, ds, i) == h0 \o SubSeq(DrawRanges(ds), 1, i)

TapeOf(seed) == IF seed \in DOMAIN tape THEN tape[seed] ELSE <<>>

\* the draws ds are what the stream gives after the draws of ranges h0
Agrees(tp, h0, ds) == \A i \in 1..Len(ds) : History(h0, ds, i) \in DOMAIN tp => tp[History(h0, ds, i)] = ds[i][2]

Revealed(tp, h0, ds) ==
    [h \in DOMAIN tp \cup {History(h0, ds, i) : i \in 1..Len(ds)} |->
        IF h \in DOMAIN tp THEN tp[h] ELSE ds[Len(h) - Len(h0)][2]]

\* the generator seeded with seed makes the draws ds
Consume(seed, h0, ds) ==
    /\ Agrees(TapeOf(seed), h0, ds)
    /\ tape' = Put(tape, seed, Revealed(TapeOf(seed), h0, ds))
    /\ history' = h0 \o DrawRanges(ds)

\* what decides the draws made before the shapes, lines 596 and 662-677
RunInputs(d) == <<d.title, Len(d.pairs), Len(d.edges), Len(d.cards), d.shufflePairs, d.shuffleEdges, d.shuffleCards, d.flip>>

\* a title, nothing hidden, the lists as given
TitledData ==
    DataFile(<<"t">>,
             << <<Plain(Chars("q", 1)), Plain(Chars("a", 1))>>, <<Plain(Chars("q", 2)), Plain(Chars("a", 2))>> >>,
             <<Plain(Chars("e", 1)), Plain(Chars("e", 2))>>,
             <<Plain(<<"c">>)>>, FALSE, FALSE)

\* the same title and options, other texts
RetitledData == [TitledData EXCEPT !.pairs = << <<Plain(Chars("q", 3)), Plain(Chars("a", 3))>>, <<Plain(Chars("q", 4)), Plain(Chars("a", 4))>> >>]

\* the same title and texts, the pairs shuffled
ShuffledData == [TitledData EXCEPT !.shufflePairs = TRUE]

SeedData == {TitledData, RetitledData, ShuffledData, HiddenPairData}

\* a triangle for each pair and no table, or a table and one square
SeedLayouts == {LayoutFile(Len(TitledData.pairs), 0, "lean"), LayoutFile(0, 1, "full")}

\* generate_jigsaw is called; the second run has the layout file and the
\* title of the first
SeedStart ==
    /\ pc = "idle"
    /\ \E lay \in SeedLayouts, d \in SeedData :
         /\ prev.valid => lay = prev.layout /\ d.title = prev.inputs[1]
         /\ \E pj \in DrawsIf(d.shufflePairs, Len(d.pairs)), ej \in DrawsIf(d.shuffleEdges, Len(d.edges)),
               cj \in DrawsIf(d.shuffleCards, Len(d.cards)), coins \in [1..(IF d.flip THEN Len(d.pairs) ELSE 0) -> BOOLEAN] :
              /\ Begin(lay, d, pj, ej, cj, coins)
              /\ Consume(SeedOf(d.title, Entropy), <<>>, StartTape(d, pj, ej, cj, coins))
    /\ UNCHANGED prev

SeedTriangles ==
    /\ pc = "triangles"
    /\ \E js \in ShuffleDraws(Len(layout.triangleSolutionCards)), rots \in [1..Len(layout.triangleSolutionCards) -> 0..2] :
         /\ Triangles(js, rots)
         /\ Consume(rng.seed, history, ShapeTape(Len(layout.triangleSolutionCards), js, rots, 3, rng'.pos - rng.pos))
    /\ UNCHANGED prev

SeedSquares ==
    /\ pc = "squares"
    /\ \E js \in ShuffleDraws(Len(layout.squareSolutionCards)), rots \in [1..Len(layout.squareSolutionCards) -> 0..3] :
         /\ Squares(js, rots)
         /\ Consume(rng.seed, history, ShapeTape(Len(layout.squareSolutionCards), js, rots, 4, rng'.pos - rng.pos))
    /\ UNCHANGED prev

\* the first run is over: what it was given and what it produced
SeedReturn ==
    /\ ~prev.valid
    /\ Leave
    /\ prev' = [valid |-> TRUE, ended |-> pc, inputs |-> RunInputs(data), layout |-> layout,
                triangleorder |-> triangleorder, trianglerot |-> trianglerot,
                squareorder |-> squareorder, squarerot |-> squarerot]
    /\ UNCHANGED <<tape, history>>

NextSeed == SeedStart \/ MakeTable \/ SeedTriangles \/ SeedSquares \/ WriteLegend \/ SeedReturn

SpecSeed == Init /\ [][NextSeed]_vars

SameLayoutAsBefore ==
    /\ triangleorder = prev.triangleorder /\ trianglerot = prev.trianglerot
    /\ squareorder = prev.squareorder /\ squarerot = prev.squarerot

BothDone == prev.valid /\ prev.ended = "done" /\ pc = "done" /\ layout = prev.layout

\* C12 as stated: the generator is seeded from the title before any draw,
\* and two runs with the same title (and layout file) end with the same
\* permutation and the same rotations for each shape
C12_SameTitle ==
    /\ pc # "idle" => rng.seed = data.title
    /\ BothDone /\ data.title = prev.inputs[1] => SameLayoutAsBefore

\* C12: the generator is seeded from the title before any draw, and two
\* runs with the same title, the same numbers of pairs, edges and cards, the
\* same shuffle and flip options and the same layout file end with the same
\* permutation and the same rotations for each shape
C12_SameInputs ==
    /\ pc # "idle" => rng.seed = data.title
    /\ BothDone /\ RunInputs(data) = prev.inputs => SameLayoutAsBefore

\* a second run, on other texts, of shuffled and turned triangles that
\* repeats the first
C12_Witness ==
    /\ BothDone /\ RunInputs(data) = prev.inputs
    /\ data = RetitledData
    /\ "triangles" \in made /\ triangleorder # InitialOrder(NumTriangles) /\ trianglerot[1] = 2 /\ trianglerot[2] = 1
    /\ SameLayoutAsBefore

============================================================================
